---- MODULE Spec2Model ----
(***************************************************************************)
(* Model of main.py: the in-memory book store (database), the books query  *)
(* resolver (get_books), the addBook mutation resolver (Mutation.add_book) *)
(* and the count subscription resolver (Subscription.count), together with *)
(* the steps of the execution engine that drive them.                      *)
(*                                                                         *)
(* add_book is modelled line by line (51, 52, 53), and the lines of        *)
(* concurrent invocations interleave freely; database.append is one step.  *)
(* A books query is one step.  The count generator moves between its       *)
(* suspension points: created, suspended at `yield i`, in the sleep, done, *)
(* closed.                                                                 *)
(*                                                                         *)
(* Spec is the whole program.  StoreSpec (queries and mutations) and       *)
(* SubSpec (the subscription) are its two independent halves: no action of *)
(* one half reads or writes a variable of the other.  FairSubSpec adds the *)
(* scheduling of the event loop to SubSpec.                                *)
(***************************************************************************)
EXTENDS Integers, Sequences, FiniteSets, TLC

\* ---- bounds -------------------------------------------------------------
MaxOps == 2
MaxQueries == 2
MaxTarget == 6
MaxNegTarget == 1

\* ---- types and inputs ---------------------------------------------------
\* class Book: title: str, author: str
Book(title, author) == [title |-> title, author |-> author]

\* Arguments of addBook: the source's example and a copy of a seeded book.
Args == { [title |-> "New Book", author |-> "me"],
          [title |-> "Gatsby 2", author |-> "F. Scott Fitzgerald"] }

\* Mutation documents: one root addBook field, or two in document order.
Documents == {<<a>> : a \in Args} \cup {<<a, b>> : a \in Args, b \in Args}

Ops == 1..MaxOps
Targets == (0 - MaxNegTarget)..MaxTarget

None == [title |-> "", author |-> ""]

\* database = [Book(...), Book(...)]
SeedDatabase ==
    << Book("The Great Gatsby", "F. Scott Fitzgerald"),
       Book("Gatsby 2", "F. Scott Fitzgerald") >>

\* ---- helpers ------------------------------------------------------------
Range(s) == {s[i] : i \in DOMAIN s}

IsPrefix(s, t) == Len(s) <= Len(t) /\ SubSeq(t, 1, Len(s)) = s

Max(a, b) == IF a >= b THEN a ELSE b

\* <<0, 1, ..., n-1>>, empty when n <= 0
UpTo(n) == [i \in 1..Max(n, 0) |-> i - 1]

Occurrences(s, x) == Cardinality({i \in DOMAIN s : s[i] = x})

VARIABLES
    database,        \* the module-level list
    mFields,         \* per mutation operation: arguments of its root addBook fields
    mPc,             \* per mutation operation: position of each root field
    mBook,           \* per mutation operation: the local `book` of each field
    mRet,            \* per mutation operation: data.addBook of each field
    qRes,            \* data.books of the latest books query
    qCount,          \* number of books queries answered
    qAt,             \* number of appends applied when the latest query ran
    sPc,             \* position of the count generator
    sTarget,         \* argument `target`
    sI,              \* loop variable `i`
    pending,         \* events yielded and not yet turned into an envelope
    sOut,            \* envelopes delivered to the subscriber
    cancelRequested  \* the subscriber has cancelled

mvars == <<mFields, mPc, mBook, mRet>>
qvars == <<qRes, qCount, qAt>>
svars == <<sPc, sTarget, sI, pending, sOut, cancelRequested>>
vars == <<database, mFields, mPc, mBook, mRet, qRes, qCount, qAt,
          sPc, sTarget, sI, pending, sOut, cancelRequested>>

Init ==
    /\ database = SeedDatabase
    /\ mFields = [o \in Ops |-> << >>]
    /\ mPc = [o \in Ops |-> << >>]
    /\ mBook = [o \in Ops |-> << >>]
    /\ mRet = [o \in Ops |-> << >>]
    /\ qRes = << >>
    /\ qCount = 0
    /\ qAt = 0
    /\ sPc = "idle"
    /\ sTarget = 0
    /\ sI = 0
    /\ pending = << >>
    /\ sOut = << >>
    /\ cancelRequested = FALSE

\* Root fields of all mutation operations received so far.
FieldIds == UNION {{<<o, k>> : k \in DOMAIN mPc[o]} : o \in Ops}

\* Fields whose database.append has run / whose resolver has returned.
Applied == {f \in FieldIds : mPc[f[1]][f[2]] \in {"l53", "returned"}}
Returned == {f \in FieldIds : mPc[f[1]][f[2]] = "returned"}
NumApplied == Cardinality(Applied)

\* ---- books query --------------------------------------------------------
get_books_reversed(db) == [i \in DOMAIN db |-> db[Len(db) + 1 - i]]

\* def get_books(): return database
get_books(db) == db

BooksQuery_consuming ==
    /\ qCount < MaxQueries
    /\ qRes' = get_books(database)
    /\ database' = SubSeq(database, 1, Len(database) - 1)
    /\ qCount' = qCount + 1
    /\ qAt' = NumApplied
    /\ UNCHANGED <<mvars, svars>>

\* A caller sends `query { books { title author } }`: Query.books runs its
\* resolver and the value becomes data.books.
BooksQuery ==
    /\ qCount < MaxQueries
    /\ qRes' = get_books(database)
    /\ qCount' = qCount + 1
    /\ qAt' = NumApplied
    /\ UNCHANGED <<database, mvars, svars>>

\* ---- addBook mutation ---------------------------------------------------
ListAppend_front(db, book) == <<book>> \o db

ListAppend_stale(db, book) ==
    Append(SubSeq(db, 1, Len(SeedDatabase) + Cardinality(Returned)), book)

ListAppend_unique(db, book) ==
    IF book \in Range(db) THEN db ELSE Append(db, book)

\* database.append(book)
ListAppend(db, book) == Append(db, book)

\* A caller sends a mutation operation with root addBook fields fs.
MutationInvoke(o, fs) ==
    /\ mFields[o] = << >>
    /\ mFields' = [mFields EXCEPT ![o] = fs]
    /\ mPc' = [mPc EXCEPT ![o] = [k \in DOMAIN fs |-> "pending"]]
    /\ mBook' = [mBook EXCEPT ![o] = [k \in DOMAIN fs |-> None]]
    /\ mRet' = [mRet EXCEPT ![o] = [k \in DOMAIN fs |-> None]]
    /\ UNCHANGED <<database, qvars, svars>>

\* The executor starts the resolver of root field k: root fields of a
\* mutation run in document order, one at a time.
ExecStartField(o, k) ==
    /\ mPc[o][k] = "pending"
    /\ \A j \in 1..(k - 1) : mPc[o][j] = "returned"
    /\ mPc' = [mPc EXCEPT ![o][k] = "l51"]
    /\ UNCHANGED <<database, mFields, mBook, mRet, qvars, svars>>

add_book_construct_swapped(o, k) ==
    /\ mPc[o][k] = "l51"
    /\ mBook' = [mBook EXCEPT ![o][k] =
                    Book(mFields[o][k].author, mFields[o][k].title)]
    /\ mPc' = [mPc EXCEPT ![o][k] = "l52"]
    /\ UNCHANGED <<database, mFields, mRet, qvars, svars>>

\* book = Book(title=title, author=author)
add_book_construct(o, k) ==
    /\ mPc[o][k] = "l51"
    /\ mBook' = [mBook EXCEPT ![o][k] =
                    Book(mFields[o][k].title, mFields[o][k].author)]
    /\ mPc' = [mPc EXCEPT ![o][k] = "l52"]
    /\ UNCHANGED <<database, mFields, mRet, qvars, svars>>

\* database.append(book)
add_book_append(o, k) ==
    /\ mPc[o][k] = "l52"
    /\ database' = ListAppend(database, mBook[o][k])
    /\ mPc' = [mPc EXCEPT ![o][k] = "l53"]
    /\ UNCHANGED <<mFields, mBook, mRet, qvars, svars>>

\* return book
add_book_return(o, k) ==
    /\ mPc[o][k] = "l53"
    /\ mRet' = [mRet EXCEPT ![o][k] = mBook[o][k]]
    /\ mPc' = [mPc EXCEPT ![o][k] = "returned"]
    /\ UNCHANGED <<database, mFields, mBook, qvars, svars>>

\* ---- count subscription -------------------------------------------------
\* A caller sends `subscription { count(target: t) }`: calling count()
\* creates the generator; none of its body has run yet.
Subscribe(t) ==
    /\ sPc = "idle"
    /\ sPc' = "created"
    /\ sTarget' = t
    /\ UNCHANGED <<database, mvars, qvars, sI, pending, sOut, cancelRequested>>

count_resume_nonzero ==
    \/ /\ sPc = "created"
       /\ IF sTarget # 0
             THEN /\ sI' = 0
                  /\ pending' = Append(pending, 0)
                  /\ sPc' = "at_yield"
             ELSE /\ sPc' = "done"
                  /\ UNCHANGED <<sI, pending>>
    \/ /\ sPc = "at_yield"
       /\ sPc' = "sleeping"
       /\ UNCHANGED <<sI, pending>>

\* The generator is asked for its next event.  A fresh generator enters
\* `for i in range(target)` and runs to its first `yield i`, or finishes
\* when range(target) is empty; a generator suspended at `yield i` resumes
\* into `await asyncio.sleep(0.5)`.
count_resume ==
    \/ /\ sPc = "created"
       /\ IF 0 < sTarget
             THEN /\ sI' = 0
                  /\ pending' = Append(pending, 0)
                  /\ sPc' = "at_yield"
             ELSE /\ sPc' = "done"
                  /\ UNCHANGED <<sI, pending>>
    \/ /\ sPc = "at_yield"
       /\ sPc' = "sleeping"
       /\ UNCHANGED <<sI, pending>>

\* The engine asks the generator for its next event, once it has handled
\* the previous one and unless the subscriber has cancelled.
RequestNext ==
    /\ ~cancelRequested
    /\ pending = << >>
    /\ count_resume
    /\ UNCHANGED <<database, mvars, qvars, sTarget, sOut, cancelRequested>>

SleepDone_repeat ==
    /\ sPc = "sleeping"
    /\ IF sI + 1 < sTarget
          THEN /\ sI' = sI + 1
               /\ pending' = Append(pending, sI)
               /\ sPc' = "at_yield"
          ELSE /\ sPc' = "done"
               /\ UNCHANGED <<sI, pending>>
    /\ UNCHANGED <<database, mvars, qvars, sTarget, sOut, cancelRequested>>

SleepDone_push ==
    /\ sPc = "sleeping"
    /\ IF sI + 1 < sTarget
          THEN /\ sI' = sI + 1
               /\ pending' = Append(pending, sI + 1)
               /\ sPc' = "sleeping"
          ELSE /\ sPc' = "done"
               /\ UNCHANGED <<sI, pending>>
    /\ UNCHANGED <<database, mvars, qvars, sTarget, sOut, cancelRequested>>

\* The sleep ends: next iteration of the loop, which suspends at `yield i`
\* or leaves the loop when range(target) is exhausted.
SleepDone ==
    /\ sPc = "sleeping"
    /\ IF sI + 1 < sTarget
          THEN /\ sI' = sI + 1
               /\ pending' = Append(pending, sI + 1)
               /\ sPc' = "at_yield"
          ELSE /\ sPc' = "done"
               /\ UNCHANGED <<sI, pending>>
    /\ UNCHANGED <<database, mvars, qvars, sTarget, sOut, cancelRequested>>

\* The engine turns the yielded event into one response envelope.
EmitEnvelope ==
    /\ ~cancelRequested
    /\ pending # << >>
    /\ sOut' = Append(sOut, Head(pending))
    /\ pending' = Tail(pending)
    /\ UNCHANGED <<database, mvars, qvars, sPc, sTarget, sI, cancelRequested>>

OnCancel_swallow(pc) == pc

\* What the generator does when cancellation is raised at the point where
\* it is suspended (`yield i` or the sleep): the body has no try/except or
\* finally, so the exception leaves the generator and it is closed.
OnCancel(pc) == "closed"

\* The subscriber cancels: the engine stops requesting events and closes
\* the generator.
Cancel ==
    /\ sPc \in {"created", "at_yield", "sleeping"}
    /\ ~cancelRequested
    /\ cancelRequested' = TRUE
    /\ sPc' = OnCancel(sPc)
    /\ UNCHANGED <<database, mvars, qvars, sTarget, sI, pending, sOut>>

\* ---- specifications -----------------------------------------------------
\* Queries and mutations against the store.
NextStore ==
    \/ BooksQuery
    \/ \E o \in Ops, fs \in Documents : MutationInvoke(o, fs)
    \/ \E o \in Ops : \E k \in DOMAIN mPc[o] : ExecStartField(o, k)
    \/ \E o \in Ops : \E k \in DOMAIN mPc[o] : add_book_construct(o, k)
    \/ \E o \in Ops : \E k \in DOMAIN mPc[o] : add_book_append(o, k)
    \/ \E o \in Ops : \E k \in DOMAIN mPc[o] : add_book_return(o, k)

\* One count subscription.
NextSub ==
    \/ \E t \in Targets : Subscribe(t)
    \/ RequestNext
    \/ SleepDone
    \/ EmitEnvelope
    \/ Cancel

\* The whole program.
Next ==
    \/ NextStore
    \/ NextSub

Spec == Init /\ [][Next]_vars

StoreSpec == Init /\ [][NextStore]_vars

SubSpec == Init /\ [][NextSub]_vars

\* The event loop runs every ready step: the timer of the sleep fires, and
\* the subscriber keeps requesting and handling events.
FairSubSpec ==
    /\ Init
    /\ [][NextSub]_vars
    /\ WF_vars(RequestNext)
    /\ WF_vars(SleepDone)
    /\ WF_vars(EmitEnvelope)

\* ---- claims -------------------------------------------------------------
\* The step in which a books query is answered.
QueryStep == qCount' = qCount + 1

\* The step in which field k of operation o runs database.append(book).
AppendStep(o, k) == mPc[o][k] = "l52" /\ mPc'[o][k] = "l53"

\* The step of the count subscription (of its generator or of its engine).
SubStep == svars' # svars

\* C1: one addBook(title, author) appends exactly one entry, whose title and
\* author are the arguments, as the new last entry of the store; it returns
\* a Book with that title and author; every later books query returns a
\* list that contains the returned book; and after n addBook mutations a
\* books query returns 2 + n entries.
C1_AddBookAppendsAndReturns ==
    /\ [][\A f \in FieldIds : AppendStep(f[1], f[2]) =>
            /\ Len(database') = Len(database) + 1
            /\ SubSeq(database', 1, Len(database)) = database
            /\ database'[Len(database')].title = mFields[f[1]][f[2]].title
            /\ database'[Len(database')].author = mFields[f[1]][f[2]].author]_vars
    /\ [](\A f \in Returned :
            /\ mRet[f[1]][f[2]].title = mFields[f[1]][f[2]].title
            /\ mRet[f[1]][f[2]].author = mFields[f[1]][f[2]].author)
    /\ [][QueryStep =>
            /\ \A f \in Returned : mRet[f[1]][f[2]] \in Range(qRes')
            /\ Len(qRes') = 2 + NumApplied]_vars

C1_Witness ==
    /\ \E f \in Returned : mFields[f[1]][f[2]].title = "New Book"
    /\ qCount > 0
    /\ qAt > 0
    /\ Len(qRes) = 3

\* C2: before any mutation has run, a books query returns exactly the two
\* seeded books, The Great Gatsby first and Gatsby 2 second.
C2_InitialBooks ==
    (qCount > 0 /\ NumApplied = 0) =>
        qRes = << [title |-> "The Great Gatsby", author |-> "F. Scott Fitzgerald"],
                  [title |-> "Gatsby 2", author |-> "F. Scott Fitzgerald"] >>

C2_Witness == qCount > 0 /\ NumApplied = 0

\* C3: in a mutation operation with root fields M1 then M2, at most one root
\* field is in flight at any time, M1 has appended and returned before the
\* resolver of M2 begins, and once M2 has appended the store holds the book
\* of M1 at a strictly lower index than the book of M2.
C3_MutationOrdering ==
    \A o \in Ops :
        /\ Cardinality({k \in DOMAIN mPc[o] : mPc[o][k] \in {"l51", "l52", "l53"}}) <= 1
        /\ Len(mPc[o]) = 2 =>
            /\ mPc[o][2] # "pending" =>
                 /\ mPc[o][1] = "returned"
                 /\ mFields[o][1] \in Range(database)
            /\ mPc[o][2] \in {"l53", "returned"} =>
                 \E i \in DOMAIN database : \E j \in DOMAIN database :
                    /\ i < j
                    /\ database[i] = mFields[o][1]
                    /\ database[j] = mFields[o][2]

C3_Witness ==
    \E o \in Ops :
        /\ Len(mPc[o]) = 2
        /\ mPc[o][2] = "returned"
        /\ mFields[o][1] # mFields[o][2]

\* C4: for target N >= 0 the envelopes delivered are always a prefix of
\* 0, 1, ..., N-1, in that order with nothing repeated or skipped; when the
\* generator has finished and every event is delivered they are exactly
\* 0, 1, ..., N-1; and after a cancellation no further envelope is delivered.
C4_CountSequence ==
    /\ [](sTarget >= 0 => IsPrefix(sOut \o pending, UpTo(sTarget)))
    /\ [](sTarget >= 0 /\ sPc = "done" /\ pending = << >> /\ ~cancelRequested
            => sOut = UpTo(sTarget))
    /\ [][cancelRequested => sOut' = sOut]_vars

C4_Witness ==
    /\ sPc = "done"
    /\ sTarget = 3
    /\ sOut = <<0, 1, 2>>

\* C5: at every moment at most one event of the count subscription has been
\* produced and not yet consumed.
C5_AtMostOnePending == Len(pending) <= 1

C5_Witness ==
    /\ Len(pending) = 1
    /\ Len(sOut) >= 1
    /\ sPc = "at_yield"

\* C6: the subscriber may cancel wherever the generator is (not started,
\* suspended at its yield, or in its sleep); once cancellation is requested
\* the generator is closed, no further event is requested or produced, and
\* the generator never leaves the closed state.
C6_Cancellation ==
    /\ [](sPc \in {"created", "at_yield", "sleeping"} /\ ~cancelRequested
            => ENABLED Cancel)
    /\ [](cancelRequested => sPc = "closed")
    /\ [][cancelRequested =>
            /\ sPc' = sPc
            /\ sI' = sI
            /\ pending' = pending
            /\ sOut' = sOut]_vars

C6_Witness ==
    /\ cancelRequested
    /\ sPc = "closed"
    /\ pending = << >>
    /\ Len(sOut) >= 1
    /\ Len(sOut) < sTarget

\* C7: under every interleaving of concurrent addBook invocations the store
\* is the seeded books followed by exactly one entry per append that has run:
\* nothing is lost, duplicated or partially applied.
C7_NoLostAppend ==
    /\ SubSeq(database, 1, 2) = SeedDatabase
    /\ Len(database) = Len(SeedDatabase) + NumApplied
    /\ \A a \in Args :
         Occurrences(SubSeq(database, 3, Len(database)), a)
            = Cardinality({f \in Applied : mFields[f[1]][f[2]] = a})

C7_Witness ==
    /\ \A o \in Ops : Len(mPc[o]) >= 1 /\ mPc[o][1] = "l53"
    /\ Len(database) = Len(SeedDatabase) + MaxOps

\* C8: a books query leaves the store unchanged, and two books queries with
\* no append between them return the same list.
C8_QueryReadOnly ==
    [][QueryStep =>
        /\ database' = database
        /\ (qCount > 0 /\ qAt = NumApplied) => qRes' = qRes]_vars

C8_Witness ==
    /\ qCount >= 2
    /\ qAt = NumApplied
    /\ NumApplied > 0
    /\ qRes = database

\* C9: the store only grows at its end: every step leaves the old store as
\* a prefix of the new one, the two seeded books stay at positions 1 and 2,
\* an append of a book already in the store still adds an entry, and no
\* step of the count subscription changes the store.
C9_AppendOnly ==
    /\ [][IsPrefix(database, database')]_vars
    /\ [](/\ Len(database) >= 2
          /\ database[1] = [title |-> "The Great Gatsby", author |-> "F. Scott Fitzgerald"]
          /\ database[2] = [title |-> "Gatsby 2", author |-> "F. Scott Fitzgerald"])
    /\ [][\A f \in FieldIds :
            (AppendStep(f[1], f[2]) /\ mBook[f[1]][f[2]] \in Range(database))
                => Len(database') = Len(database) + 1]_vars
    /\ [][SubStep => database' = database]_vars

C9_Witness ==
    /\ Occurrences(database, [title |-> "Gatsby 2", author |-> "F. Scott Fitzgerald"]) >= 2
    /\ Occurrences(database, [title |-> "New Book", author |-> "me"]) >= 2
    /\ qCount > 0
    /\ sOut # << >>

\* C10: a count subscription that is not cancelled and whose events keep
\* being requested completes, having produced exactly max(target, 0) events,
\* all delivered in order; with target <= 0 it produces none; and once the
\* generator is done the number of events produced is max(target, 0).
C10_CountTerminates ==
    /\ (sPc = "created") ~>
          (cancelRequested \/ (sPc = "done" /\ sOut = UpTo(sTarget)))
    /\ [](sPc = "done" => Len(sOut) + Len(pending) = Max(sTarget, 0))
    /\ [](sTarget <= 0 => sOut = << >> /\ pending = << >>)

C10_Witness ==
    /\ sPc = "done"
    /\ sTarget < 0
    /\ sOut = << >>

====
